---- MODULE Spec2Model ----
(***************************************************************************)
(* Model of the stake-pool rebalance planner (the interactive command     *)
(* loop, autoRebalance, validate and saveState).                          *)
(*                                                                         *)
(* Amounts.  The program keeps SOL amounts as IEEE doubles and rounds     *)
(* them to 9 decimal places (one lamport).  Here an amount is an integer  *)
(* number of units, UnitsPerLamport units to the lamport, so that a       *)
(* target that is not a whole number of lamports (setTarget does not      *)
(* round) can be represented.  Quotients are carried exactly as a         *)
(* numerator over a denominator until the code rounds them.  The number   *)
(* of lamports in one SOL is scaled down (LamportsPerSol) to keep the     *)
(* integers within range; 0.01 SOL and 1 SOL stay in their proportion.    *)
(* The arithmetic is that of the reals: the representation error of a     *)
(* double is not modelled.                                                *)
(***************************************************************************)
EXTENDS Integers, Sequences, FiniteSets, TLC

\* ---- bounds of the model ------------------------------------------------
UnitsPerLamport == 2
LamportsPerSol == 1000
MaxSteps == 3

LAMPORT == UnitsPerLamport
SOL == LamportsPerSol * LAMPORT

VARIABLES validators, newValidators, reserveBalance, saved, lastCmd, running, steps,
          dataFile, fetch, currentPage, exact

vars == <<validators, newValidators, reserveBalance, saved, lastCmd, running, steps,
          dataFile, fetch, currentPage, exact>>

\* ---- helpers --------------------------------------------------------------
Min(a, b) == IF a <= b THEN a ELSE b

RECURSIVE SumSeq(_)
SumSeq(s) == IF s = <<>> THEN 0 ELSE Head(s) + SumSeq(Tail(s))

IsRemoved(v) == v.action = "remove"
NotRemoved(v) == v.action # "remove"
Actives(s) == [i \in 1..Len(s) |-> s[i].activeBalance]
Targets(s) == [i \in 1..Len(s) |-> s[i].targetBalance]

\* Math.round(p/q lamports) for the amount p/q units, given back in units:
\* Math.round rounds to the nearest integer, a half upwards.
RoundQ(p, q) ==
  LAMPORT * ((2 * p + q * LAMPORT) \div (2 * q * LAMPORT))

roundToLamports(sol) == RoundQ(sol, 1)

\* ---- the snapshot (data.json) and the chain's vote accounts ---------------
Entry(vote, stake, active, transient) ==
  [voteAccount |-> vote, stakeAccount |-> stake,
   activeBalance |-> active, transientBalance |-> transient]

Snapshots ==
  { [reserveBalance |-> 50 * SOL,
     validators |-> << Entry("V1", "S1", 100 * SOL, 0) >>],
    [reserveBalance |-> 0,
     validators |-> << Entry("V1", "S1", 1000 * SOL, 0),
                       Entry("V2", "S2", 500 * SOL, 0) >>],
    [reserveBalance |-> 0,
     validators |-> << Entry("V1", "S1", LAMPORT, 0),
                       Entry("V2", "S2", 0, SOL),
                       Entry("V3", "S3", 0, SOL) >>],
    [reserveBalance |-> 0,
     validators |-> << Entry("V1", "S1", 60 * SOL, 0),
                       Entry("V2", "S2", 0, SOL),
                       Entry("V3", "S3", 100 * SOL, 0),
                       Entry("V6", "S6", 100 * SOL, 0) >>],
    [reserveBalance |-> 2 * SOL,
     validators |-> << Entry("V1", "S1", 3 * SOL, 0),
                       Entry("V2", "S2", 2 * SOL, 0),
                       Entry("V3", "S3", SOL, LAMPORT) >>] }

\* getVoteAccounts(): vote account -> node identity of the validators the
\* cluster reports.
ClusterVoteAccounts ==
  { [votePubkey |-> "V1", nodePubkey |-> "N1"],
    [votePubkey |-> "V4", nodePubkey |-> "N4"],
    [votePubkey |-> "V5", nodePubkey |-> "N5"] }

AddressInputs == {"V1", "N1", "V4", "N4", "V5", "X"}

loadData(snap) ==
  [validators |-> [i \in 1..Len(snap.validators) |->
                    [voteAccount |-> snap.validators[i].voteAccount,
                     stakeAccount |-> snap.validators[i].stakeAccount,
                     activeBalance |-> snap.validators[i].activeBalance,
                     transientBalance |-> snap.validators[i].transientBalance,
                     targetBalance |-> snap.validators[i].activeBalance,
                     action |-> "keep"]],
   reserveBalance |-> snap.reserveBalance]

\* ---- data.json -----------------------------------------------------------------
\* The file is missing, unreadable as JSON, or holds a whole PoolData.
NoFile == [status |-> "missing", reserveBalance |-> 0, validators |-> <<>>]
Corrupt == [status |-> "corrupt", reserveBalance |-> 0, validators |-> <<>>]

FileEntry(e, name) ==
  [voteAccount |-> e.voteAccount, name |-> name, stakeAccount |-> e.stakeAccount,
   activeBalance |-> e.activeBalance, transientBalance |-> e.transientBalance]

PoolData(reserve, list, names) ==
  [status |-> "ok", reserveBalance |-> reserve,
   validators |-> [i \in 1..Len(list) |-> FileEntry(list[i], names[i])]]

FileOf(snap) ==
  PoolData(snap.reserveBalance, snap.validators, [i \in 1..Len(snap.validators) |-> "null"])

\* the session begins once data.json has been loaded
SessionStarted(file) ==
  [pc |-> "session", failedAt |-> "none", old |-> file, chain |-> 0,
   reserve |-> 0, list |-> <<>>, names |-> <<>>]

\* ---- autoRebalance ----------------------------------------------------------
removedStakeOf(vs) == SumSeq(Actives(SelectSeq(vs, IsRemoved)))

\* indices of the non-removed validators, ascending by target (stable sort)
RECURSIVE SortByTarget(_, _)
SortByTarget(vs, S) ==
  IF S = {} THEN <<>>
  ELSE LET m == CHOOSE i \in S : \A j \in S :
                    \/ vs[i].targetBalance < vs[j].targetBalance
                    \/ vs[i].targetBalance = vs[j].targetBalance /\ i <= j
       IN <<m>> \o SortByTarget(vs, S \ {m})

\* the non-removed validators, highest target first
activeValidators_Descending(vs) ==
  LET asc == SortByTarget(vs, {i \in 1..Len(vs) : NotRemoved(vs[i])})
  IN [k \in 1..Len(asc) |-> asc[Len(asc) + 1 - k]]

activeValidators(vs) ==
  SortByTarget(vs, {i \in 1..Len(vs) : NotRemoved(vs[i])})

toAddOf_Uncapped(deficitN, remainingN) == remainingN

\* Math.min(deficit, remaining), both as numerators over n
toAddOf(deficitN, remainingN) == Min(deficitN, remainingN)

\* the first loop: newTotal = targetPerValidator * n is kept as the numerator
RECURSIVE DistributeBottomUp(_, _, _, _, _)
DistributeBottomUp(vs, order, remaining, newTotal, n) ==
  IF order = <<>> \/ remaining <= 0
  THEN [vs |-> vs, remaining |-> remaining]
  ELSE LET i == Head(order)
           currentTarget == vs[i].targetBalance
           deficitN == newTotal - n * currentTarget
       IN IF deficitN > 0
          THEN LET toAddN == toAddOf(deficitN, n * remaining)
               IN DistributeBottomUp(
                    [vs EXCEPT ![i].targetBalance = RoundQ(n * currentTarget + toAddN, n)],
                    Tail(order),
                    RoundQ(n * remaining - toAddN, n),
                    newTotal, n)
          ELSE DistributeBottomUp(vs, Tail(order), remaining, newTotal, n)

\* the second loop: perValidator = remaining / n added to every active one
RECURSIVE DistributeEqually(_, _, _, _)
DistributeEqually(vs, order, remaining, n) ==
  IF order = <<>> THEN vs
  ELSE LET i == Head(order)
       IN DistributeEqually(
            [vs EXCEPT ![i].targetBalance = RoundQ(n * vs[i].targetBalance + remaining, n)],
            Tail(order), remaining, n)

\* autoRebalance without the early return on removedStake === 0
autoRebalance_Unguarded(vs) ==
  LET removedStake == removedStakeOf(vs)
      order == activeValidators(vs)
      n == Len(order)
  IN IF n = 0 THEN [vs |-> vs, msg |-> "no active"]
     ELSE LET totalActiveStake == SumSeq([k \in 1..n |-> vs[order[k]].targetBalance])
              newTotal == totalActiveStake + removedStake
              first == DistributeBottomUp(vs, order, removedStake, newTotal, n)
          IN [vs |-> IF first.remaining > 0
                     THEN DistributeEqually(first.vs, order, first.remaining, n)
                     ELSE first.vs,
              msg |-> "redistributed"]

autoRebalance(vs) ==
  LET removedStake == removedStakeOf(vs)
      order == activeValidators(vs)
      n == Len(order)
  IN IF removedStake = 0 THEN [vs |-> vs, msg |-> "nothing removed"]
     ELSE IF n = 0 THEN [vs |-> vs, msg |-> "no active"]
     ELSE LET totalActiveStake == SumSeq([k \in 1..n |-> vs[order[k]].targetBalance])
              newTotal == totalActiveStake + removedStake
              first == DistributeBottomUp(vs, order, removedStake, newTotal, n)
          IN [vs |-> IF first.remaining > 0
                     THEN DistributeEqually(first.vs, order, first.remaining, n)
                     ELSE first.vs,
              msg |-> "redistributed"]

\* ---- validate -----------------------------------------------------------------
PositivePart(x) == IF x > 0 THEN x ELSE 0

\* validate with an exclusive funding bound and no tolerance
validate_Exclusive(vs, nvs, reserve) ==
  LET kept == SelectSeq(vs, NotRemoved)
      totalWithNew == SumSeq(Targets(kept)) + SumSeq(Targets(nvs))
      decreasedStake ==
        SumSeq([i \in 1..Len(kept) |->
                  PositivePart(kept[i].activeBalance - kept[i].targetBalance)])
      availableReserve == reserve + removedStakeOf(vs) + decreasedStake
      increasedStake ==
        SumSeq([i \in 1..Len(kept) |->
                  PositivePart(kept[i].targetBalance - kept[i].activeBalance)])
      totalNeeded == increasedStake + SumSeq(Targets(nvs))
  IN IF totalNeeded >= availableReserve THEN FALSE
     ELSE IF 100 * totalWithNew < 100 * (Len(kept) + Len(nvs)) * SOL - SOL THEN FALSE
     ELSE TRUE

\* validate that forgets the stake of the new validators in what is needed
validate_NewUnfunded(vs, nvs, reserve) ==
  LET kept == SelectSeq(vs, NotRemoved)
      totalWithNew == SumSeq(Targets(kept)) + SumSeq(Targets(nvs))
      decreasedStake ==
        SumSeq([i \in 1..Len(kept) |->
                  PositivePart(kept[i].activeBalance - kept[i].targetBalance)])
      availableReserve == reserve + removedStakeOf(vs) + decreasedStake
      increasedStake ==
        SumSeq([i \in 1..Len(kept) |->
                  PositivePart(kept[i].targetBalance - kept[i].activeBalance)])
  IN IF 100 * increasedStake > 100 * availableReserve + SOL THEN FALSE
     ELSE IF 100 * totalWithNew < 100 * (Len(kept) + Len(nvs)) * SOL - SOL THEN FALSE
     ELSE TRUE

validate(vs, nvs, reserve) ==
  LET kept == SelectSeq(vs, NotRemoved)
      totalTarget == SumSeq(Targets(kept))
      newValidatorStake == SumSeq(Targets(nvs))
      totalWithNew == totalTarget + newValidatorStake
      decreasedStake ==
        SumSeq([i \in 1..Len(kept) |->
                  PositivePart(kept[i].activeBalance - kept[i].targetBalance)])
      removedStake == removedStakeOf(vs)
      availableReserve == reserve + removedStake + decreasedStake
      activeValidatorCount == Len(kept) + Len(nvs)
      minStaked == activeValidatorCount * SOL
      increasedStake ==
        SumSeq([i \in 1..Len(kept) |->
                  PositivePart(kept[i].targetBalance - kept[i].activeBalance)])
      totalNeeded == increasedStake + newValidatorStake
  IN \* 0.01 SOL is SOL / 100: both sides are multiplied by 100
     IF 100 * totalNeeded > 100 * availableReserve + SOL THEN FALSE
     ELSE IF 100 * totalWithNew < 100 * minStaked - SOL THEN FALSE
     ELSE TRUE

\* ---- saveState ------------------------------------------------------------------
\* removals that report the target (0 after a remove) as the current balance
saveState_RemovalTarget(vs, nvs) ==
  LET kept == SelectSeq(vs, NotRemoved)
      gone == SelectSeq(vs, IsRemoved)
      changed == SelectSeq(vs, LAMBDA v : v.action # "remove" /\ v.targetBalance # v.activeBalance)
  IN [summary |-> [totalValidators |-> Len(kept) + Len(nvs),
                   toRemove |-> Len(gone),
                   toAdd |-> Len(nvs),
                   toModify |-> Len(changed)],
      removals |-> [i \in 1..Len(gone) |->
                     [voteAccount |-> gone[i].voteAccount, stakeAccount |-> gone[i].stakeAccount,
                      currentBalance |-> gone[i].targetBalance]],
      additions |-> [i \in 1..Len(nvs) |->
                     [voteAccount |-> nvs[i].voteAccount, targetBalance |-> nvs[i].targetBalance]],
      modifications |-> [i \in 1..Len(changed) |->
                     [voteAccount |-> changed[i].voteAccount, stakeAccount |-> changed[i].stakeAccount,
                      currentBalance |-> changed[i].activeBalance,
                      targetBalance |-> changed[i].targetBalance,
                      change |-> changed[i].targetBalance - changed[i].activeBalance]],
      validators |-> [i \in 1..Len(kept) |->
                     [voteAccount |-> kept[i].voteAccount, stakeAccount |-> kept[i].stakeAccount,
                      activeBalance |-> kept[i].activeBalance,
                      targetBalance |-> kept[i].targetBalance]]]

\* modifications that list only the validators whose target rose
saveState_OnlyIncreases(vs, nvs) ==
  LET kept == SelectSeq(vs, NotRemoved)
      gone == SelectSeq(vs, IsRemoved)
      changed == SelectSeq(vs, LAMBDA v : v.action # "remove" /\ v.targetBalance > v.activeBalance)
  IN [summary |-> [totalValidators |-> Len(kept) + Len(nvs),
                   toRemove |-> Len(gone),
                   toAdd |-> Len(nvs),
                   toModify |-> Len(changed)],
      removals |-> [i \in 1..Len(gone) |->
                     [voteAccount |-> gone[i].voteAccount, stakeAccount |-> gone[i].stakeAccount,
                      currentBalance |-> gone[i].activeBalance]],
      additions |-> [i \in 1..Len(nvs) |->
                     [voteAccount |-> nvs[i].voteAccount, targetBalance |-> nvs[i].targetBalance]],
      modifications |-> [i \in 1..Len(changed) |->
                     [voteAccount |-> changed[i].voteAccount, stakeAccount |-> changed[i].stakeAccount,
                      currentBalance |-> changed[i].activeBalance,
                      targetBalance |-> changed[i].targetBalance,
                      change |-> changed[i].targetBalance - changed[i].activeBalance]],
      validators |-> [i \in 1..Len(kept) |->
                     [voteAccount |-> kept[i].voteAccount, stakeAccount |-> kept[i].stakeAccount,
                      activeBalance |-> kept[i].activeBalance,
                      targetBalance |-> kept[i].targetBalance]]]

\* a validators list that is not filtered: the removed ones stay in it
saveState_KeepsRemoved(vs, nvs) ==
  LET kept == SelectSeq(vs, NotRemoved)
      gone == SelectSeq(vs, IsRemoved)
      changed == SelectSeq(vs, LAMBDA v : v.action # "remove" /\ v.targetBalance # v.activeBalance)
  IN [summary |-> [totalValidators |-> Len(kept) + Len(nvs),
                   toRemove |-> Len(gone),
                   toAdd |-> Len(nvs),
                   toModify |-> Len(changed)],
      removals |-> [i \in 1..Len(gone) |->
                     [voteAccount |-> gone[i].voteAccount, stakeAccount |-> gone[i].stakeAccount,
                      currentBalance |-> gone[i].activeBalance]],
      additions |-> [i \in 1..Len(nvs) |->
                     [voteAccount |-> nvs[i].voteAccount, targetBalance |-> nvs[i].targetBalance]],
      modifications |-> [i \in 1..Len(changed) |->
                     [voteAccount |-> changed[i].voteAccount, stakeAccount |-> changed[i].stakeAccount,
                      currentBalance |-> changed[i].activeBalance,
                      targetBalance |-> changed[i].targetBalance,
                      change |-> changed[i].targetBalance - changed[i].activeBalance]],
      validators |-> [i \in 1..Len(vs) |->
                     [voteAccount |-> vs[i].voteAccount, stakeAccount |-> vs[i].stakeAccount,
                      activeBalance |-> vs[i].activeBalance,
                      targetBalance |-> vs[i].targetBalance]]]

saveState(vs, nvs) ==
  LET kept == SelectSeq(vs, NotRemoved)
      gone == SelectSeq(vs, IsRemoved)
      changed == SelectSeq(vs, LAMBDA v : v.action # "remove" /\ v.targetBalance # v.activeBalance)
  IN [summary |-> [totalValidators |-> Len(kept) + Len(nvs),
                   toRemove |-> Len(gone),
                   toAdd |-> Len(nvs),
                   toModify |-> Len(changed)],
      removals |-> [i \in 1..Len(gone) |->
                     [voteAccount |-> gone[i].voteAccount, stakeAccount |-> gone[i].stakeAccount,
                      currentBalance |-> gone[i].activeBalance]],
      additions |-> [i \in 1..Len(nvs) |->
                     [voteAccount |-> nvs[i].voteAccount, targetBalance |-> nvs[i].targetBalance]],
      modifications |-> [i \in 1..Len(changed) |->
                     [voteAccount |-> changed[i].voteAccount, stakeAccount |-> changed[i].stakeAccount,
                      currentBalance |-> changed[i].activeBalance,
                      targetBalance |-> changed[i].targetBalance,
                      change |-> changed[i].targetBalance - changed[i].activeBalance]],
      validators |-> [i \in 1..Len(kept) |->
                     [voteAccount |-> kept[i].voteAccount, stakeAccount |-> kept[i].stakeAccount,
                      activeBalance |-> kept[i].activeBalance,
                      targetBalance |-> kept[i].targetBalance]]]

NoPlan == [summary |-> [totalValidators |-> 0, toRemove |-> 0, toAdd |-> 0, toModify |-> 0],
           removals |-> <<>>, additions |-> <<>>, modifications |-> <<>>,
           validators |-> <<>>]

\* ---- operator input ---------------------------------------------------------
\* A numeric argument as parseInt / parseFloat return it: a number or NaN.
Num(n) == [nan |-> FALSE, x |-> n]
NaN == [nan |-> TRUE, x |-> 0]

MaxIndexInput == 6
IndexInputs == {Num(n) : n \in 0..MaxIndexInput} \cup {NaN}
AmountInputs == {Num(50 * SOL), Num(0 - SOL), Num(LAMPORT + 1), NaN}
DeltaInputs == {Num(SOL), Num(0 - SOL), NaN}

\* parseFloat("Infinity") and parseFloat("-Infinity"): numbers that are not NaN
\* and not finite.  They stand outside the range of every finite amount of the
\* model and are never used in arithmetic.
Infinity == 2 ^ 30
NonFiniteInputs == {Num(Infinity), Num(0 - Infinity), NaN}
isFinite(x) == x # Infinity /\ x # 0 - Infinity

\* idx = parseInt(parts[1], 10) - 1; state.validators[idx] !== undefined && idx >= 0
IdxOf(tok) == tok.x - 1
HasExisting(vs, tok) == ~tok.nan /\ IdxOf(tok) >= 0 /\ IdxOf(tok) < Len(vs)
InNewRange(vs, nvs, tok) ==
  ~tok.nan /\ IdxOf(tok) >= Len(vs) /\ IdxOf(tok) < Len(vs) + Len(nvs)
Reported(tok) == IF tok.nan THEN -1 ELSE IdxOf(tok)

\* lastCmd records the command line just handled and the message it printed
Done(cmd, tok, msg) ==
  /\ lastCmd' = [cmd |-> cmd, idx |-> Reported(tok), amt |-> NaN, addr |-> "", msg |-> msg]
  /\ steps' = steps + 1
  /\ UNCHANGED <<dataFile, fetch, currentPage, exact>>

DoneAmount(cmd, tok, amount, msg) ==
  /\ lastCmd' = [cmd |-> cmd, idx |-> Reported(tok), amt |-> amount, addr |-> "", msg |-> msg]
  /\ steps' = steps + 1
  /\ UNCHANGED <<dataFile, fetch, currentPage>>

DoneAddress(input, msg) ==
  /\ lastCmd' = [cmd |-> "a", idx |-> -1, amt |-> NaN, addr |-> input, msg |-> msg]
  /\ steps' = steps + 1
  /\ UNCHANGED <<dataFile, fetch, currentPage, exact>>

Prompt == running /\ steps < MaxSteps

\* ---- validateVoteAccount ------------------------------------------------------
validateVoteAccount(input, rpcFails) ==
  IF rpcFails THEN [valid |-> FALSE, voteAccount |-> input]
  ELSE IF \E a \in ClusterVoteAccounts : a.votePubkey = input
       THEN [valid |-> TRUE, voteAccount |-> input]
  ELSE IF \E a \in ClusterVoteAccounts : a.nodePubkey = input
       THEN [valid |-> TRUE,
             voteAccount |-> (CHOOSE a \in ClusterVoteAccounts : a.nodePubkey = input).votePubkey]
  ELSE [valid |-> FALSE, voteAccount |-> input]

HasVote(vs, nvs, vote) ==
  \/ \E i \in 1..Len(vs) : vs[i].voteAccount = vote
  \/ \E i \in 1..Len(nvs) : nvs[i].voteAccount = vote

NewRecord_Keep(vote) ==
  [voteAccount |-> vote, stakeAccount |-> "", activeBalance |-> 0,
   transientBalance |-> 0, targetBalance |-> 0, action |-> "keep"]

NewRecord(vote) ==
  [voteAccount |-> vote, stakeAccount |-> "", activeBalance |-> 0,
   transientBalance |-> 0, targetBalance |-> 0, action |-> "add"]

\* exact[i]: the target validator i was loaded with plus every delta a + or -
\* command has applied to it since, unrounded; whole: each was a whole number
\* of lamports.  History of the session, not read by any handler.
ExactAtLoad(vs) == [i \in 1..Len(vs) |-> [sum |-> vs[i].targetBalance, whole |-> TRUE]]

\* ---- the session ----------------------------------------------------------------
Init ==
  \E snap \in Snapshots :
    /\ validators = loadData(snap).validators
    /\ newValidators = <<>>
    /\ reserveBalance = loadData(snap).reserveBalance
    /\ saved = NoPlan
    /\ lastCmd = [cmd |-> "load", idx |-> -1, amt |-> NaN, addr |-> "", msg |-> "ok"]
    /\ running = TRUE
    /\ steps = 0
    /\ dataFile = FileOf(snap)
    /\ fetch = SessionStarted(FileOf(snap))
    /\ currentPage = 1
    /\ exact = ExactAtLoad(loadData(snap).validators)

CmdQuit ==
  /\ Prompt
  /\ running' = FALSE
  /\ Done("q", NaN, "goodbye")
  /\ UNCHANGED <<validators, newValidators, reserveBalance, saved>>

\* remove that also takes the stake out of the record
CmdRemove_ZeroesStake ==
  \E tok \in IndexInputs :
    /\ Prompt
    /\ IF HasExisting(validators, tok)
       THEN /\ validators' = [validators EXCEPT ![IdxOf(tok) + 1].action = "remove",
                                                ![IdxOf(tok) + 1].targetBalance = 0,
                                                ![IdxOf(tok) + 1].activeBalance = 0]
            /\ Done("r", tok, "ok")
       ELSE /\ validators' = validators
            /\ Done("r", tok, "invalid")
    /\ UNCHANGED <<newValidators, reserveBalance, saved, running>>

CmdRemove ==
  \E tok \in IndexInputs :
    /\ Prompt
    /\ IF HasExisting(validators, tok)
       THEN /\ validators' = [validators EXCEPT ![IdxOf(tok) + 1].action = "remove",
                                                ![IdxOf(tok) + 1].targetBalance = 0]
            /\ Done("r", tok, "ok")
       ELSE /\ validators' = validators
            /\ Done("r", tok, "invalid")
    /\ UNCHANGED <<newValidators, reserveBalance, saved, running>>

\* undo that restores the action but leaves the target as it is
CmdUndo_KeepTarget ==
  \E tok \in IndexInputs :
    /\ Prompt
    /\ IF HasExisting(validators, tok)
       THEN /\ validators' = [validators EXCEPT ![IdxOf(tok) + 1].action = "keep"]
            /\ Done("u", tok, "ok")
       ELSE /\ validators' = validators
            /\ Done("u", tok, "silent")
    /\ UNCHANGED <<newValidators, reserveBalance, saved, running>>

CmdUndo ==
  \E tok \in IndexInputs :
    /\ Prompt
    /\ IF HasExisting(validators, tok)
       THEN /\ validators' = [validators EXCEPT
                 ![IdxOf(tok) + 1].action = "keep",
                 ![IdxOf(tok) + 1].targetBalance = validators[IdxOf(tok) + 1].activeBalance]
            /\ Done("u", tok, "ok")
       ELSE /\ validators' = validators
            /\ Done("u", tok, "silent")
    /\ UNCHANGED <<newValidators, reserveBalance, saved, running>>

\* the amount is stored rounded to lamports
storedTarget_Rounded(amount) == roundToLamports(amount)

\* v.targetBalance = amount
storedTarget(amount) == amount

CmdSetFrom(amounts) ==
  \E tok \in IndexInputs, amount \in amounts :
    /\ Prompt
    /\ IF HasExisting(validators, tok) /\ ~amount.nan
       THEN /\ validators' = [validators EXCEPT ![IdxOf(tok) + 1].targetBalance = storedTarget(amount.x)]
            /\ newValidators' = newValidators
            /\ DoneAmount("s", tok, amount, "ok")
       ELSE IF InNewRange(validators, newValidators, tok) /\ ~amount.nan
       THEN /\ newValidators' = [newValidators EXCEPT
                 ![IdxOf(tok) - Len(validators) + 1].targetBalance = storedTarget(amount.x)]
            /\ validators' = validators
            /\ DoneAmount("s", tok, amount, "ok")
       ELSE /\ UNCHANGED <<validators, newValidators>>
            /\ DoneAmount("s", tok, amount, "silent")
    /\ UNCHANGED <<reserveBalance, saved, running, exact>>

CmdSet == CmdSetFrom(AmountInputs)

\* the sum is rounded to 8 decimal places
addedTarget_Coarse(current, addAmount) ==
  10 * LAMPORT * ((2 * (current + addAmount) + 10 * LAMPORT) \div (2 * 10 * LAMPORT))

\* roundToLamports(v.targetBalance + addAmount)
addedTarget(current, addAmount) == roundToLamports(current + addAmount)

CmdAddFrom(deltas) ==
  \E tok \in IndexInputs, addAmount \in deltas :
    /\ Prompt
    /\ IF HasExisting(validators, tok) /\ ~addAmount.nan
       THEN IF validators[IdxOf(tok) + 1].action = "remove"
            THEN /\ UNCHANGED <<validators, newValidators>>
                 /\ DoneAmount("+", tok, addAmount, "removed")
            ELSE /\ validators' = [validators EXCEPT ![IdxOf(tok) + 1].targetBalance =
                       addedTarget(validators[IdxOf(tok) + 1].targetBalance, addAmount.x)]
                 /\ newValidators' = newValidators
                 /\ DoneAmount("+", tok, addAmount, "ok")
       ELSE IF InNewRange(validators, newValidators, tok) /\ ~addAmount.nan
       THEN LET newIdx == IdxOf(tok) - Len(validators) + 1
            IN /\ newValidators' = [newValidators EXCEPT ![newIdx].targetBalance =
                       addedTarget(newValidators[newIdx].targetBalance, addAmount.x)]
               /\ validators' = validators
               /\ DoneAmount("+", tok, addAmount, "ok")
       ELSE /\ UNCHANGED <<validators, newValidators>>
            /\ DoneAmount("+", tok, addAmount, "invalid")
    /\ UNCHANGED <<reserveBalance, saved, running>>

CmdAdd == CmdAddFrom(DeltaInputs) /\ UNCHANGED exact

\* the subtraction is never refused
belowZero_Never(newTarget) == FALSE

\* newTarget < 0
belowZero(newTarget) == newTarget < 0

CmdSubFrom(deltas) ==
  \E tok \in IndexInputs, subAmount \in deltas :
    /\ Prompt
    /\ IF HasExisting(validators, tok) /\ ~subAmount.nan
       THEN IF validators[IdxOf(tok) + 1].action = "remove"
            THEN /\ UNCHANGED <<validators, newValidators>>
                 /\ DoneAmount("-", tok, subAmount, "removed")
            ELSE LET newTarget ==
                       roundToLamports(validators[IdxOf(tok) + 1].targetBalance - subAmount.x)
                 IN IF belowZero(newTarget)
                    THEN /\ UNCHANGED <<validators, newValidators>>
                         /\ DoneAmount("-", tok, subAmount, "below zero")
                    ELSE /\ validators' =
                              [validators EXCEPT ![IdxOf(tok) + 1].targetBalance = newTarget]
                         /\ newValidators' = newValidators
                         /\ DoneAmount("-", tok, subAmount, "ok")
       ELSE IF InNewRange(validators, newValidators, tok) /\ ~subAmount.nan
       THEN LET newIdx == IdxOf(tok) - Len(validators) + 1
                newTarget == roundToLamports(newValidators[newIdx].targetBalance - subAmount.x)
            IN IF belowZero(newTarget)
               THEN /\ UNCHANGED <<validators, newValidators>>
                    /\ DoneAmount("-", tok, subAmount, "below zero")
               ELSE /\ newValidators' = [newValidators EXCEPT ![newIdx].targetBalance = newTarget]
                    /\ validators' = validators
                    /\ DoneAmount("-", tok, subAmount, "ok")
       ELSE /\ UNCHANGED <<validators, newValidators>>
            /\ DoneAmount("-", tok, subAmount, "invalid")
    /\ UNCHANGED <<reserveBalance, saved, running>>

CmdSub == CmdSubFrom(DeltaInputs) /\ UNCHANGED exact

\* the resolved vote account is not looked up again
alreadyExists_Skipped(vs, nvs, toAdd) == FALSE

\* the second look-up, on the resolved vote account
alreadyExists(vs, nvs, toAdd) == HasVote(vs, nvs, toAdd)

\* the new record is put in front of the earlier ones
pushNewValidator_Front(nvs, vote) == <<NewRecord(vote)>> \o nvs

pushNewValidator(nvs, vote) == Append(nvs, NewRecord(vote))

CmdAddValidator ==
  \E voteAccount \in AddressInputs, rpcFails \in BOOLEAN :
    /\ Prompt
    /\ IF HasVote(validators, newValidators, voteAccount)
       THEN /\ newValidators' = newValidators
            /\ DoneAddress(voteAccount, "exists")
       ELSE LET result == validateVoteAccount(voteAccount, rpcFails)
                toAdd == result.voteAccount
            IN IF ~result.valid
               THEN /\ newValidators' = newValidators
                    /\ DoneAddress(voteAccount, "invalid")
               ELSE IF alreadyExists(validators, newValidators, toAdd)
               THEN /\ newValidators' = newValidators
                    /\ DoneAddress(voteAccount, "already in pool")
               ELSE /\ newValidators' = pushNewValidator(newValidators, toAdd)
                    /\ DoneAddress(voteAccount, "added")
    /\ UNCHANGED <<validators, reserveBalance, saved, running>>

\* rebalance that leaves the list in the order it sorted it
CmdRebalance_SortsInPlace ==
  /\ Prompt
  /\ validators' =
       LET after == autoRebalance(validators).vs
           order == SortByTarget(after, 1..Len(after))
       IN [k \in 1..Len(after) |-> after[order[k]]]
  /\ Done("b", NaN, autoRebalance(validators).msg)
  /\ UNCHANGED <<newValidators, reserveBalance, saved, running>>

CmdRebalance ==
  /\ Prompt
  /\ validators' = autoRebalance(validators).vs
  /\ Done("b", NaN, autoRebalance(validators).msg)
  /\ UNCHANGED <<newValidators, reserveBalance, saved, running>>

CmdValidate ==
  /\ Prompt
  /\ Done("v", NaN, IF validate(validators, newValidators, reserveBalance)
                    THEN "passed" ELSE "failed")
  /\ UNCHANGED <<validators, newValidators, reserveBalance, saved, running>>

\* the write command without the validation gate
CmdWrite_Ungated ==
  /\ Prompt
  /\ saved' = saveState(validators, newValidators)
  /\ Done("w", NaN, "saved")
  /\ UNCHANGED <<validators, newValidators, reserveBalance, running>>

CmdWrite ==
  /\ Prompt
  /\ IF validate(validators, newValidators, reserveBalance)
     THEN /\ saved' = saveState(validators, newValidators)
          /\ Done("w", NaN, "saved")
     ELSE /\ saved' = saved
          /\ Done("w", NaN, "failed")
  /\ UNCHANGED <<validators, newValidators, reserveBalance, running>>

\* any other input line: no branch of the loop matches
CmdOther ==
  /\ Prompt
  /\ Done("other", NaN, "silent")
  /\ UNCHANGED <<validators, newValidators, reserveBalance, saved, running>>

Next ==
  \/ CmdQuit
  \/ CmdRemove
  \/ CmdUndo
  \/ CmdSet
  \/ CmdAdd
  \/ CmdSub
  \/ CmdAddValidator
  \/ CmdRebalance
  \/ CmdValidate
  \/ CmdWrite
  \/ CmdOther

Spec == Init /\ [][Next]_vars

\* Sessions that use only the commands whose handlers do no arithmetic on the
\* targets (r, u, s, a, q), with the non-finite amounts among the inputs of s.
CmdSetAny == CmdSetFrom(AmountInputs \cup NonFiniteInputs)

NextTargets ==
  \/ CmdQuit
  \/ CmdRemove
  \/ CmdUndo
  \/ CmdSetAny
  \/ CmdAddValidator
  \/ CmdOther

SpecTargets == Init /\ [][NextTargets]_vars

\* ---- start of the program: fetch, write data.json, load -------------------------
\* What the chain holds: the reserve in lamports and the validator list of the
\* pool with active and transient lamports per validator.
OnChain(vote, active, transient) ==
  [voteAccountAddress |-> vote, activeStakeLamports |-> active,
   transientStakeLamports |-> transient]

ChainStates ==
  { [reserveLamports |-> 50 * LamportsPerSol,
     validators |-> << OnChain("V1", 100 * LamportsPerSol, 0), OnChain("V9", 0, 0) >>],
    [reserveLamports |-> 0,
     validators |-> << OnChain("V1", 1000 * LamportsPerSol, 0),
                       OnChain("V2", 500 * LamportsPerSol, 0) >>],
    [reserveLamports |-> 0,
     validators |-> << OnChain("V1", 1, 0), OnChain("V9", 0, 0),
                       OnChain("V2", 0, LamportsPerSol),
                       OnChain("V3", 0, LamportsPerSol) >>] }

\* data.json as an earlier run left it
OldFiles ==
  { NoFile,
    FileOf([reserveBalance |-> 2 * SOL,
            validators |-> << Entry("V1", "S1", 3 * SOL, 0),
                              Entry("V2", "S2", 2 * SOL, 0) >>]),
    FileOf([reserveBalance |-> 0, validators |-> << Entry("V3", "S3", 7 * SOL, 0) >>]) }

\* Number(lamports) / LAMPORTS_PER_SOL
lamportsToSol(l) == l * LAMPORT

deriveStakeAccountPDA(vote) ==
  CASE vote = "V1" -> "S1" [] vote = "V2" -> "S2" [] vote = "V3" -> "S3" [] OTHER -> "S9"

\* meta.name of the validator in the names service
RugAlertName(vote) ==
  CASE vote = "V1" -> "Alpha" [] vote = "V2" -> "Beta" [] vote = "V3" -> "Gamma" [] OTHER -> "null"

\* first pass: validators with no active and no transient stake are skipped
validatorsWithStake(list) ==
  LET staked == SelectSeq(list, LAMBDA v :
                  ~(v.activeStakeLamports = 0 /\ v.transientStakeLamports = 0))
  IN [i \in 1..Len(staked) |->
       Entry(staked[i].voteAccountAddress,
             deriveStakeAccountPDA(staked[i].voteAccountAddress),
             lamportsToSol(staked[i].activeStakeLamports),
             lamportsToSol(staked[i].transientStakeLamports))]

InitFetch ==
  \E old \in OldFiles, chain \in ChainStates :
    /\ dataFile = old
    /\ fetch = [pc |-> "start", failedAt |-> "none", old |-> old, chain |-> chain,
                reserve |-> 0, list |-> <<>>, names |-> <<>>]
    /\ validators = <<>>
    /\ newValidators = <<>>
    /\ reserveBalance = 0
    /\ saved = NoPlan
    /\ lastCmd = [cmd |-> "none", idx |-> -1, amt |-> NaN, addr |-> "", msg |-> ""]
    /\ running = FALSE
    /\ steps = 0
    /\ currentPage = 1
    /\ exact = <<>>

NoSession ==
  UNCHANGED <<validators, newValidators, reserveBalance, saved, lastCmd, running, steps,
              currentPage, exact>>

\* a rejected await: the catch of main reports it, data.json is not touched
Throws(step) ==
  /\ fetch' = [fetch EXCEPT !.pc = "failed", !.failedAt = step]
  /\ dataFile' = dataFile

FetchStakePool ==
  /\ fetch.pc = "start"
  /\ \E ok \in BOOLEAN :
       IF ok THEN fetch' = [fetch EXCEPT !.pc = "pool"] /\ dataFile' = dataFile
             ELSE Throws("pool account")
  /\ NoSession

\* getBalance written into data.json before the list is fetched
FetchReserve_WritesEarly ==
  /\ fetch.pc = "pool"
  /\ \E ok \in BOOLEAN :
       IF ok THEN /\ fetch' = [fetch EXCEPT !.pc = "reserve",
                                 !.reserve = lamportsToSol(fetch.chain.reserveLamports)]
                  /\ dataFile' = PoolData(lamportsToSol(fetch.chain.reserveLamports), <<>>, <<>>)
             ELSE Throws("reserve balance")
  /\ NoSession

FetchReserve ==
  /\ fetch.pc = "pool"
  /\ \E ok \in BOOLEAN :
       IF ok THEN /\ fetch' = [fetch EXCEPT !.pc = "reserve",
                                 !.reserve = lamportsToSol(fetch.chain.reserveLamports)]
                  /\ dataFile' = dataFile
             ELSE Throws("reserve balance")
  /\ NoSession

\* getAccountInfo: the account, null (then the function throws), or an RPC error
FetchValidatorList ==
  /\ fetch.pc = "reserve"
  /\ \E outcome \in {"account", "null", "error"} :
       IF outcome = "account" THEN fetch' = [fetch EXCEPT !.pc = "list"] /\ dataFile' = dataFile
                              ELSE Throws("validator list")
  /\ NoSession

\* ValidatorListLayout.decode and the first pass; the name lookups are started
DecodeList ==
  /\ fetch.pc = "list"
  /\ \E ok \in BOOLEAN :
       IF ok THEN LET list == validatorsWithStake(fetch.chain.validators)
                  IN /\ fetch' = [fetch EXCEPT !.pc = "names", !.list = list,
                                     !.names = [i \in 1..Len(list) |-> "pending"]]
                     /\ dataFile' = dataFile
             ELSE Throws("decoding")
  /\ NoSession

\* names collected in the order the lookups settle, not by position
NameResolved_CompletionOrder ==
  /\ fetch.pc = "names"
  /\ \E i \in 1..Len(fetch.list), ok \in BOOLEAN :
       /\ fetch.names[i] = "pending"
       /\ LET slot == CHOOSE j \in 1..Len(fetch.names) :
                         /\ fetch.names[j] = "pending"
                         /\ \A k \in 1..(j - 1) : fetch.names[k] # "pending"
          IN fetch' = [fetch EXCEPT !.names[slot] =
                         IF ok THEN RugAlertName(fetch.list[i].voteAccount) ELSE "null"]
  /\ dataFile' = dataFile
  /\ NoSession

\* one fetchValidatorName settles: the name, or null on a non-OK answer or an error
NameResolved ==
  /\ fetch.pc = "names"
  /\ \E i \in 1..Len(fetch.list), ok \in BOOLEAN :
       /\ fetch.names[i] = "pending"
       /\ fetch' = [fetch EXCEPT !.names[i] =
                      IF ok THEN RugAlertName(fetch.list[i].voteAccount) ELSE "null"]
  /\ dataFile' = dataFile
  /\ NoSession

\* Promise.all has settled; the one writeFileSync, which may itself fail
\* before the file is opened or part way through
WriteFile ==
  /\ fetch.pc = "names"
  /\ \A i \in 1..Len(fetch.names) : fetch.names[i] # "pending"
  /\ \E outcome \in {"written", "unopened", "truncated"} :
       CASE outcome = "written" ->
              /\ dataFile' = PoolData(fetch.reserve, fetch.list, fetch.names)
              /\ fetch' = [fetch EXCEPT !.pc = "written"]
         [] outcome = "unopened" ->
              /\ dataFile' = dataFile
              /\ fetch' = [fetch EXCEPT !.pc = "failed", !.failedAt = "write"]
         [] outcome = "truncated" ->
              /\ dataFile' = Corrupt
              /\ fetch' = [fetch EXCEPT !.pc = "failed", !.failedAt = "write"]
  /\ NoSession

\* loadData after the try / catch: readFileSync or JSON.parse throws on a
\* missing or unreadable file and the program ends before the session
LoadData ==
  /\ fetch.pc \in {"written", "failed"}
  /\ IF dataFile.status = "ok"
     THEN /\ validators' = loadData(dataFile).validators
          /\ reserveBalance' = loadData(dataFile).reserveBalance
          /\ running' = TRUE
          /\ lastCmd' = [cmd |-> "load", idx |-> -1, amt |-> NaN, addr |-> "", msg |-> "ok"]
          /\ fetch' = [fetch EXCEPT !.pc = "session"]
          /\ exact' = ExactAtLoad(validators')
     ELSE /\ UNCHANGED <<validators, reserveBalance, running, lastCmd, exact>>
          /\ fetch' = [fetch EXCEPT !.pc = "aborted"]
  /\ UNCHANGED <<newValidators, saved, steps, dataFile, currentPage>>

NextFetch ==
  \/ FetchStakePool
  \/ FetchReserve
  \/ FetchValidatorList
  \/ DecodeList
  \/ NameResolved
  \/ WriteFile
  \/ LoadData

SpecFetch == InitFetch /\ [][NextFetch]_vars

\* ---- sessions of + and - with deltas below one lamport ------------------------------
\* one lamport up, one lamport down, a fraction of a lamport, a non-number
FineDeltaInputs == {Num(LAMPORT), Num(0 - LAMPORT), Num(1), NaN}

\* the history of the deltas applied follows the command just handled
TrackExact ==
  exact' = IF /\ lastCmd'.cmd \in {"+", "-"}
              /\ lastCmd'.msg = "ok"
              /\ lastCmd'.idx \in 0..(Len(validators) - 1)
           THEN [exact EXCEPT ![lastCmd'.idx + 1] =
                   [sum |-> IF lastCmd'.cmd = "+" THEN @.sum + lastCmd'.amt.x
                                                 ELSE @.sum - lastCmd'.amt.x,
                    whole |-> @.whole /\ lastCmd'.amt.x % LAMPORT = 0]]
           ELSE exact

DeltaAdd == CmdAddFrom(FineDeltaInputs) /\ TrackExact

DeltaSub == CmdSubFrom(FineDeltaInputs) /\ TrackExact

NextDeltas ==
  \/ DeltaAdd
  \/ DeltaSub

SpecDeltas == Init /\ [][NextDeltas]_vars

\* ---- sessions of s, r and b on a pool with balances of a few lamports ----------------
FillSnapshots ==
  { [reserveBalance |-> 0,
     validators |-> << Entry("V1", "S1", 3 * LAMPORT, 0),
                       Entry("V2", "S2", 0, SOL),
                       Entry("V3", "S3", 0, SOL),
                       Entry("V6", "S6", SOL, 0) >>],
    [reserveBalance |-> 0,
     validators |-> << Entry("V1", "S1", 4 * LAMPORT, 0),
                       Entry("V2", "S2", LAMPORT, 0),
                       Entry("V3", "S3", 6 * LAMPORT, 0) >>] }

InitFill ==
  \E snap \in FillSnapshots :
    /\ validators = loadData(snap).validators
    /\ newValidators = <<>>
    /\ reserveBalance = loadData(snap).reserveBalance
    /\ saved = NoPlan
    /\ lastCmd = [cmd |-> "load", idx |-> -1, amt |-> NaN, addr |-> "", msg |-> "ok"]
    /\ running = TRUE
    /\ steps = 0
    /\ dataFile = FileOf(snap)
    /\ fetch = SessionStarted(FileOf(snap))
    /\ currentPage = 1
    /\ exact = ExactAtLoad(loadData(snap).validators)

NextFill ==
  \/ CmdRemove
  \/ CmdSet
  \/ CmdRebalance

SpecFill == InitFill /\ [][NextFill]_vars

\* ---- sessions of r and b only -------------------------------------------------------
NextFreed ==
  \/ CmdRemove
  \/ CmdRebalance

SpecFreed == Init /\ [][NextFreed]_vars

\* ---- the planner of src/src/rebalance.ts -------------------------------------------
\* Its autoRebalance, saveState, roundToLamports and loadData are the same
\* functions as above; validate, the paging and the handlers of s and a differ.
validatorsPerPage == 15

\* parseFloat of a non-number, stored by s as the target of a proposed validator
NotANumber == 2 ^ 30 + 1

\* the amounts typed after s: 0.01 SOL above 100 SOL, 1.5 lamports, 50 SOL, a non-number
TotalsAmountInputs ==
  {Num(100 * SOL + SOL \div 100), Num(LAMPORT + 1), Num(50 * SOL), NaN}

CeilDiv(a, b) == (a + b - 1) \div b
totalPages(vs, nvs) ==
  IF CeilDiv(Len(vs) + Len(nvs), validatorsPerPage) > 1
  THEN CeilDiv(Len(vs) + Len(nvs), validatorsPerPage) ELSE 1

normalizePage(page, vs, nvs) ==
  IF page > totalPages(vs, nvs) THEN totalPages(vs, nvs) ELSE page

\* validate that accepts a difference of exactly 0.01
validateTotals_Inclusive(vs, nvs) ==
  LET totalCurrent == SumSeq(Actives(vs))
      totalTarget == SumSeq(Targets(SelectSeq(vs, NotRemoved)))
  IN IF \E j \in 1..Len(nvs) : nvs[j].targetBalance = NotANumber
     THEN FALSE
     ELSE LET totalWithNew == totalTarget + SumSeq(Targets(nvs))
              diff == IF totalWithNew - totalCurrent < 0
                      THEN totalCurrent - totalWithNew ELSE totalWithNew - totalCurrent
          IN 100 * diff <= SOL

\* diff = |totalWithNew - totalCurrent| < 0.01; a sum with NaN in it is NaN
\* and NaN < 0.01 is false
validateTotals(vs, nvs) ==
  LET totalCurrent == SumSeq(Actives(vs))
      totalTarget == SumSeq(Targets(SelectSeq(vs, NotRemoved)))
  IN IF \E j \in 1..Len(nvs) : nvs[j].targetBalance = NotANumber
     THEN FALSE
     ELSE LET totalWithNew == totalTarget + SumSeq(Targets(nvs))
              diff == IF totalWithNew - totalCurrent < 0
                      THEN totalCurrent - totalWithNew ELSE totalWithNew - totalCurrent
          IN 100 * diff < SOL

DoneTotals(cmd, tok, amount, addr, msg, page) ==
  /\ lastCmd' = [cmd |-> cmd, idx |-> Reported(tok), amt |-> amount, addr |-> addr, msg |-> msg]
  /\ steps' = steps + 1
  /\ currentPage' = page
  /\ UNCHANGED <<dataFile, fetch, exact>>

TotalsQuit ==
  /\ Prompt
  /\ running' = FALSE
  /\ DoneTotals("q", NaN, NaN, "", "goodbye", currentPage)
  /\ UNCHANGED <<validators, newValidators, reserveBalance, saved>>

TotalsNextPage ==
  /\ Prompt
  /\ DoneTotals("n", NaN, NaN, "", "silent",
                IF currentPage < totalPages(validators, newValidators)
                THEN currentPage + 1 ELSE currentPage)
  /\ UNCHANGED <<validators, newValidators, reserveBalance, saved, running>>

TotalsPrevPage ==
  /\ Prompt
  /\ DoneTotals("p", NaN, NaN, "", "silent",
                IF currentPage > 1 THEN currentPage - 1 ELSE currentPage)
  /\ UNCHANGED <<validators, newValidators, reserveBalance, saved, running>>

TotalsRemove ==
  \E tok \in IndexInputs :
    /\ Prompt
    /\ IF HasExisting(validators, tok)
       THEN /\ validators' = [validators EXCEPT ![IdxOf(tok) + 1].action = "remove",
                                                ![IdxOf(tok) + 1].targetBalance = 0]
            /\ DoneTotals("r", tok, NaN, "", "ok",
                          normalizePage(currentPage, validators', newValidators))
       ELSE /\ validators' = validators
            /\ DoneTotals("r", tok, NaN, "", "invalid", currentPage)
    /\ UNCHANGED <<newValidators, reserveBalance, saved, running>>

TotalsUndo ==
  \E tok \in IndexInputs :
    /\ Prompt
    /\ IF HasExisting(validators, tok)
       THEN /\ validators' = [validators EXCEPT
                 ![IdxOf(tok) + 1].action = "keep",
                 ![IdxOf(tok) + 1].targetBalance = validators[IdxOf(tok) + 1].activeBalance]
            /\ DoneTotals("u", tok, NaN, "", "ok",
                          normalizePage(currentPage, validators', newValidators))
       ELSE /\ validators' = validators
            /\ DoneTotals("u", tok, NaN, "", "silent", currentPage)
    /\ UNCHANGED <<newValidators, reserveBalance, saved, running>>

\* the branch of a proposed validator stores the amount without testing it
TotalsSet ==
  \E tok \in IndexInputs, amount \in TotalsAmountInputs :
    /\ Prompt
    /\ IF HasExisting(validators, tok) /\ ~amount.nan
       THEN /\ validators' = [validators EXCEPT ![IdxOf(tok) + 1].targetBalance = amount.x]
            /\ newValidators' = newValidators
            /\ DoneTotals("s", tok, amount, "", "ok", currentPage)
       ELSE IF InNewRange(validators, newValidators, tok)
       THEN /\ newValidators' = [newValidators EXCEPT
                 ![IdxOf(tok) - Len(validators) + 1].targetBalance =
                    IF amount.nan THEN NotANumber ELSE amount.x]
            /\ validators' = validators
            /\ DoneTotals("s", tok, amount, "", "ok", currentPage)
       ELSE /\ UNCHANGED <<validators, newValidators>>
            /\ DoneTotals("s", tok, amount, "", "silent", currentPage)
    /\ UNCHANGED <<reserveBalance, saved, running>>

\* the address is taken as typed: only the two lists are searched for it
TotalsAddValidator ==
  \E voteAccount \in AddressInputs :
    /\ Prompt
    /\ IF HasVote(validators, newValidators, voteAccount)
       THEN /\ newValidators' = newValidators
            /\ DoneTotals("a", NaN, NaN, voteAccount, "exists", currentPage)
       ELSE /\ newValidators' = Append(newValidators, NewRecord(voteAccount))
            /\ DoneTotals("a", NaN, NaN, voteAccount, "added",
                          normalizePage(currentPage, validators, newValidators'))
    /\ UNCHANGED <<validators, reserveBalance, saved, running>>

TotalsRebalance ==
  /\ Prompt
  /\ validators' = autoRebalance(validators).vs
  /\ DoneTotals("b", NaN, NaN, "", autoRebalance(validators).msg, currentPage)
  /\ UNCHANGED <<newValidators, reserveBalance, saved, running>>

TotalsValidate ==
  /\ Prompt
  /\ DoneTotals("v", NaN, NaN, "",
                IF validateTotals(validators, newValidators) THEN "passed" ELSE "failed",
                currentPage)
  /\ UNCHANGED <<validators, newValidators, reserveBalance, saved, running>>

TotalsWrite ==
  /\ Prompt
  /\ IF validateTotals(validators, newValidators)
     THEN /\ saved' = saveState(validators, newValidators)
          /\ DoneTotals("w", NaN, NaN, "", "saved", currentPage)
     ELSE /\ saved' = saved
          /\ DoneTotals("w", NaN, NaN, "", "failed", currentPage)
  /\ UNCHANGED <<validators, newValidators, reserveBalance, running>>

TotalsOther ==
  /\ Prompt
  /\ DoneTotals("other", NaN, NaN, "", "silent", currentPage)
  /\ UNCHANGED <<validators, newValidators, reserveBalance, saved, running>>

NextTotals ==
  \/ TotalsQuit
  \/ TotalsNextPage
  \/ TotalsPrevPage
  \/ TotalsRemove
  \/ TotalsUndo
  \/ TotalsSet
  \/ TotalsAddValidator
  \/ TotalsRebalance
  \/ TotalsValidate
  \/ TotalsWrite
  \/ TotalsOther

SpecTotals == Init /\ [][NextTotals]_vars

\* ---- properties -------------------------------------------------------------------
RECURSIVE SumFn(_, _)
SumFn(f, S) ==
  IF S = {} THEN 0
  ELSE LET i == CHOOSE j \in S : TRUE IN f[i] + SumFn(f, S \ {i})

Abs(x) == IF x < 0 THEN 0 - x ELSE x
ActiveIdx(vs) == {i \in 1..Len(vs) : vs[i].action # "remove"}
RemovedIdx(vs) == {i \in 1..Len(vs) : vs[i].action = "remove"}
TargetSum(vs, S) == SumFn([i \in 1..Len(vs) |-> vs[i].targetBalance], S)
CurrentSum(vs, S) == SumFn([i \in 1..Len(vs) |-> vs[i].activeBalance], S)

\* C1: one rebalance of a state with freed stake and at least one active
\* validator raises the sum of the active targets by exactly the freed stake,
\* to within one lamport (1e-9).
C1_RebalanceConserves ==
  [][ ( /\ lastCmd'.cmd = "b"
        /\ CurrentSum(validators, RemovedIdx(validators)) > 0
        /\ ActiveIdx(validators) # {} )
      => Abs( TargetSum(validators', ActiveIdx(validators))
              - TargetSum(validators, ActiveIdx(validators))
              - CurrentSum(validators, RemovedIdx(validators)) ) <= LAMPORT ]_vars

\* The decision rule as the specification words it.
FeasibleRule(vs, nvs, reserve) ==
  LET A == ActiveIdx(vs)
      P == 1..Len(nvs)
      removedStake == CurrentSum(vs, RemovedIdx(vs))
      decreasedStake ==
        SumFn([i \in 1..Len(vs) |->
                 IF vs[i].activeBalance > vs[i].targetBalance
                 THEN vs[i].activeBalance - vs[i].targetBalance ELSE 0], A)
      increasedStake ==
        SumFn([i \in 1..Len(vs) |->
                 IF vs[i].targetBalance > vs[i].activeBalance
                 THEN vs[i].targetBalance - vs[i].activeBalance ELSE 0], A)
        + TargetSum(nvs, P)
      availableReserve == reserve + removedStake + decreasedStake
      totalTarget == TargetSum(vs, A) + TargetSum(nvs, P)
      minimumRequired == (Cardinality(A) + Cardinality(P)) * SOL
  IN /\ 100 * increasedStake <= 100 * availableReserve + SOL
     /\ 100 * totalTarget >= 100 * minimumRequired - SOL

BoundarySetup ==
  /\ reserveBalance = 50 * SOL
  /\ Len(validators) = 1
  /\ validators[1].action = "keep"
  /\ validators[1].activeBalance = 100 * SOL
  /\ validators[1].targetBalance = 100 * SOL
  /\ Len(newValidators) = 1

\* C2: validate accepts a state exactly when both inequalities of the decision
\* rule hold, and the funding bound is inclusive: with reserve 50, one
\* unchanged validator and one proposed validator, target 50 passes and
\* target 51 fails.
C2_DecisionRule ==
  /\ validate(validators, newValidators, reserveBalance)
       <=> FeasibleRule(validators, newValidators, reserveBalance)
  /\ lastCmd.cmd = "v" =>
       (lastCmd.msg = "passed" <=> FeasibleRule(validators, newValidators, reserveBalance))
  /\ BoundarySetup =>
       /\ newValidators[1].targetBalance = 50 * SOL
            => validate(validators, newValidators, reserveBalance)
       /\ newValidators[1].targetBalance = 51 * SOL
            => ~validate(validators, newValidators, reserveBalance)

C2_Witness ==
  /\ BoundarySetup
  /\ newValidators[1].targetBalance = 50 * SOL
  /\ lastCmd.cmd = "v"
  /\ lastCmd.msg = "passed"

\* C3: a plan is written only by the write command, and only in a state that
\* satisfies the decision rule; the command leaves that state as it was.
C3_ExportGated ==
  [][ (saved' # saved \/ lastCmd'.msg = "saved")
      => /\ lastCmd'.cmd = "w"
         /\ FeasibleRule(validators, newValidators, reserveBalance)
         /\ validators' = validators
         /\ newValidators' = newValidators
         /\ reserveBalance' = reserveBalance ]_vars

C3_Witness ==
  /\ lastCmd.cmd = "w"
  /\ lastCmd.msg = "saved"
  /\ saved # NoPlan
  /\ saved.summary.toModify > 0

\* C4: an accepted state never targets more stake than exists: the targets of
\* the active and the proposed validators sum to at most the current stake of
\* all existing validators plus the reserve (plus 0.01).
C4_NoManufacturedStake ==
  validate(validators, newValidators, reserveBalance)
    => 100 * ( TargetSum(validators, ActiveIdx(validators))
               + TargetSum(newValidators, 1..Len(newValidators)) )
         <= 100 * ( CurrentSum(validators, 1..Len(validators)) + reserveBalance ) + SOL

C4_Witness ==
  /\ lastCmd.cmd = "v"
  /\ lastCmd.msg = "passed"
  /\ TargetSum(validators, ActiveIdx(validators))
       + TargetSum(newValidators, 1..Len(newValidators))
     = CurrentSum(validators, 1..Len(validators)) + reserveBalance
  /\ reserveBalance > 0

\* C5: in an accepted state every active validator (kept or proposed) has a
\* target of at least one SOL, within 0.01.
C5_OperabilityFloor ==
  validate(validators, newValidators, reserveBalance)
    => /\ \A i \in ActiveIdx(validators) :
            100 * validators[i].targetBalance >= 100 * SOL - SOL
       /\ \A i \in 1..Len(newValidators) :
            100 * newValidators[i].targetBalance >= 100 * SOL - SOL

\* C6: a state in which some record has a negative target is rejected by
\* validate.
C6_NegativeTargetRejected ==
  ( \/ \E i \in 1..Len(validators) : validators[i].targetBalance < 0
    \/ \E i \in 1..Len(newValidators) : newValidators[i].targetBalance < 0 )
    => ~validate(validators, newValidators, reserveBalance)

\* C7: every existing validator marked remove has target 0.
C7_RemovedTargetZero ==
  \A i \in 1..Len(validators) :
    validators[i].action = "remove" => validators[i].targetBalance = 0

\* C8: remove on an existing validator gives action remove and target 0, and
\* a second remove of the same validator changes nothing; undo gives action
\* keep and the target equal to the current balance, whatever the target was.
C8_RemovalInvariant ==
  [][ /\ ( lastCmd'.cmd = "r" /\ lastCmd'.idx \in 0..(Len(validators) - 1) )
           => /\ validators'[lastCmd'.idx + 1].action = "remove"
              /\ validators'[lastCmd'.idx + 1].targetBalance = 0
              /\ ( lastCmd.cmd = "r" /\ lastCmd.idx = lastCmd'.idx )
                   => validators' = validators
      /\ ( lastCmd'.cmd = "u" /\ lastCmd'.idx \in 0..(Len(validators) - 1) )
           => /\ validators'[lastCmd'.idx + 1].action = "keep"
              /\ validators'[lastCmd'.idx + 1].targetBalance
                   = validators[lastCmd'.idx + 1].activeBalance ]_vars

C8_Witness ==
  /\ lastCmd.cmd = "u"
  /\ lastCmd.idx \in 0..(Len(validators) - 1)
  /\ validators[lastCmd.idx + 1].action = "keep"
  /\ validators[lastCmd.idx + 1].activeBalance > 0
  /\ validators[lastCmd.idx + 1].targetBalance = validators[lastCmd.idx + 1].activeBalance
  /\ steps = MaxSteps

\* the vote accounts an address stands for: itself, and the vote account of
\* the validator whose node identity it is
StandsFor(addr) ==
  {addr} \cup {a.votePubkey : a \in {b \in ClusterVoteAccounts : b.nodePubkey = addr}}

Present(vs, nvs) ==
  {vs[i].voteAccount : i \in 1..Len(vs)} \cup {nvs[i].voteAccount : i \in 1..Len(nvs)}

\* C9: no identity occurs twice across the existing and the proposed
\* validators, and adding an address that is present, or that resolves to a
\* vote account that is present, appends nothing.
C9_UniqueIdentities ==
  [][ /\ Cardinality(Present(validators', newValidators'))
           = Len(validators') + Len(newValidators')
      /\ ( lastCmd'.cmd = "a"
           /\ StandsFor(lastCmd'.addr) \cap Present(validators, newValidators) # {} )
           => newValidators' = newValidators ]_vars

C9_Witness ==
  /\ lastCmd.cmd = "a"
  /\ Len(newValidators) = 1
  /\ lastCmd.addr # newValidators[1].voteAccount
  /\ newValidators[1].voteAccount \in StandsFor(lastCmd.addr)
  /\ lastCmd.msg = "already in pool"

InCombinedRange(vs, nvs, idx) == idx \in 0..(Len(vs) + Len(nvs) - 1)
RecordAt(vs, nvs, idx) == IF idx < Len(vs) THEN vs[idx + 1] ELSE nvs[idx - Len(vs) + 1]
AllocationUnchanged ==
  /\ validators' = validators
  /\ newValidators' = newValidators
  /\ reserveBalance' = reserveBalance
  /\ saved' = saved

\* C11: an add or a subtract on a validator marked remove, and a subtract
\* whose rounded result is negative (on an existing or a proposed validator),
\* leave the whole allocation state as it was.
C11_InvalidOperationUnchanged ==
  [][ /\ ( /\ lastCmd'.cmd \in {"+", "-"}
           /\ lastCmd'.idx \in 0..(Len(validators) - 1)
           /\ validators[lastCmd'.idx + 1].action = "remove" )
         => AllocationUnchanged
      /\ ( /\ lastCmd'.cmd = "-"
           /\ ~lastCmd'.amt.nan
           /\ InCombinedRange(validators, newValidators, lastCmd'.idx)
           /\ roundToLamports(RecordAt(validators, newValidators, lastCmd'.idx).targetBalance
                              - lastCmd'.amt.x) < 0 )
         => AllocationUnchanged ]_vars

C11_Witness ==
  /\ lastCmd.cmd = "-"
  /\ ~lastCmd.amt.nan
  /\ lastCmd.idx >= Len(validators)
  /\ InCombinedRange(validators, newValidators, lastCmd.idx)
  /\ RecordAt(validators, newValidators, lastCmd.idx).targetBalance - lastCmd.amt.x < 0
  /\ lastCmd.msg = "below zero"

\* C12: set on any index of the combined space with a finite amount makes the
\* target of that record the amount itself, unrounded, and changes neither
\* its action nor any other record.
C12_SetTargetEffect ==
  [][ ( /\ lastCmd'.cmd = "s"
        /\ ~lastCmd'.amt.nan
        /\ InCombinedRange(validators, newValidators, lastCmd'.idx) )
      => /\ Len(validators') = Len(validators)
         /\ Len(newValidators') = Len(newValidators)
         /\ \A k \in 0..(Len(validators) + Len(newValidators) - 1) :
              IF k = lastCmd'.idx
              THEN RecordAt(validators', newValidators', k)
                     = [RecordAt(validators, newValidators, k)
                          EXCEPT !.targetBalance = lastCmd'.amt.x]
              ELSE RecordAt(validators', newValidators', k)
                     = RecordAt(validators, newValidators, k)
         /\ reserveBalance' = reserveBalance ]_vars

C12_Witness ==
  /\ lastCmd.cmd = "s"
  /\ lastCmd.idx >= Len(validators)
  /\ InCombinedRange(validators, newValidators, lastCmd.idx)
  /\ lastCmd.amt = Num(LAMPORT + 1)
  /\ RecordAt(validators, newValidators, lastCmd.idx).targetBalance = LAMPORT + 1

\* C13: set with a non-finite amount (NaN, +Infinity, -Infinity) changes no
\* target, so every targetBalance of every reachable state is finite.
C13_TargetsFinite ==
  /\ \A i \in 1..Len(validators) : isFinite(validators[i].targetBalance)
  /\ \A j \in 1..Len(newValidators) : isFinite(newValidators[j].targetBalance)

Immutable(rec) ==
  <<rec.voteAccount, rec.stakeAccount, rec.activeBalance, rec.transientBalance>>

\* C14 (I4, frame): no command, rebalance, validate or export changes the
\* current balance, the pending balance or the identity of any record, nor
\* the reserve; the existing list keeps its length and the proposed list only
\* grows at its end.
C14_Frame ==
  [][ /\ reserveBalance' = reserveBalance
      /\ Len(validators') = Len(validators)
      /\ \A i \in 1..Len(validators) : Immutable(validators'[i]) = Immutable(validators[i])
      /\ Len(newValidators') >= Len(newValidators)
      /\ \A j \in 1..Len(newValidators) :
           Immutable(newValidators'[j]) = Immutable(newValidators[j]) ]_vars

C14_Witness ==
  /\ lastCmd.cmd = "b"
  /\ lastCmd.msg = "redistributed"
  /\ \E i \in 1..Len(validators) :
       /\ validators[i].action = "keep"
       /\ validators[i].activeBalance > 0
       /\ validators[i].targetBalance > validators[i].activeBalance
  /\ \E i \in 1..Len(validators) :
       /\ validators[i].action = "remove"
       /\ validators[i].activeBalance > 0

\* the index of the step is not one the command accepts: r and u take the
\* existing range only, s, + and - the combined range
InvalidIndexStep ==
  \/ /\ lastCmd'.cmd \in {"r", "u"}
     /\ lastCmd'.idx \notin 0..(Len(validators) - 1)
  \/ /\ lastCmd'.cmd \in {"s", "+", "-"}
     /\ ~InCombinedRange(validators, newValidators, lastCmd'.idx)

\* C15: an indexed command (r, u, s, +, -) whose index is outside the range
\* it accepts is answered with an error message and leaves the allocation
\* state unchanged.
C15_InvalidIndexReported ==
  [][ InvalidIndexStep => (AllocationUnchanged /\ lastCmd'.msg = "invalid") ]_vars

Added(i) == validators'[i].targetBalance - validators[i].targetBalance

C17_RebalanceNoOp ==
  [][ ( /\ lastCmd'.cmd = "b"
        /\ \/ RemovedIdx(validators) = {}
           \/ CurrentSum(validators, RemovedIdx(validators)) = 0
           \/ ActiveIdx(validators) = {} )
      => /\ AllocationUnchanged
         /\ lastCmd'.msg \in {"nothing removed", "no active"} ]_vars

C17_Witness ==
  /\ lastCmd.cmd = "b"
  /\ lastCmd.msg = "no active"
  /\ Len(validators) > 0
  /\ ActiveIdx(validators) = {}
  /\ CurrentSum(validators, RemovedIdx(validators)) > 0

\* the state right after: load of a snapshot whose balances are all at least
\* 1 SOL, removes of steps - 1 distinct validators (not all of them), one rebalance
EndToEndSetup ==
  /\ lastCmd.cmd = "b"
  /\ newValidators = <<>>
  /\ RemovedIdx(validators) # {}
  /\ ActiveIdx(validators) # {}
  /\ Cardinality(RemovedIdx(validators)) = steps - 1
  /\ \A i \in 1..Len(validators) : validators[i].activeBalance >= SOL

ReserveSamples == {0, LAMPORT, 2 * SOL, reserveBalance}

\* C18 (end to end): after load, removal of a non-empty proper subset and one
\* rebalance, validate accepts the state for any reserve >= 0; the plan lists
\* every removed validator in removals with its current balance and every
\* validator that received stake in modifications with change = the amount
\* received; a single remaining validator receives all the freed stake.
C18_EndToEnd ==
  EndToEndSetup =>
    LET plan == saveState(validators, newValidators)
    IN /\ \A res \in ReserveSamples : validate(validators, newValidators, res)
       /\ \A i \in RemovedIdx(validators) :
            \E k \in 1..Len(plan.removals) :
              /\ plan.removals[k].voteAccount = validators[i].voteAccount
              /\ plan.removals[k].currentBalance = validators[i].activeBalance
       /\ \A i \in ActiveIdx(validators) :
            validators[i].targetBalance # validators[i].activeBalance
              => \E k \in 1..Len(plan.modifications) :
                   /\ plan.modifications[k].voteAccount = validators[i].voteAccount
                   /\ plan.modifications[k].change
                        = validators[i].targetBalance - validators[i].activeBalance
                   /\ plan.modifications[k].change > 0
       /\ \A i \in ActiveIdx(validators) :
            ActiveIdx(validators) = {i}
              => validators[i].targetBalance
                   = validators[i].activeBalance
                       + CurrentSum(validators, RemovedIdx(validators))

\* A = 1000 removed, B = 500: target(B) = 1500 and the plan shows change = 1000
C18_Witness ==
  /\ EndToEndSetup
  /\ Len(validators) = 2
  /\ validators[1].action = "remove"
  /\ validators[1].activeBalance = 1000 * SOL
  /\ validators[2].activeBalance = 500 * SOL
  /\ validators[2].targetBalance = 1500 * SOL
  /\ saveState(validators, newValidators).removals
       = << [voteAccount |-> "V1", stakeAccount |-> "S1", currentBalance |-> 1000 * SOL] >>
  /\ Len(saveState(validators, newValidators).modifications) = 1
  /\ saveState(validators, newValidators).modifications[1].change = 1000 * SOL

SeqRange(q) == {q[k] : k \in 1..Len(q)}
ModifiedIdx(vs) ==
  {i \in 1..Len(vs) : vs[i].action # "remove" /\ vs[i].targetBalance # vs[i].activeBalance}

PlanExact(plan, vs, nvs) ==
  /\ Len(plan.modifications) = Cardinality(ModifiedIdx(vs))
  /\ {[voteAccount |-> m.voteAccount, change |-> m.change] : m \in SeqRange(plan.modifications)}
       = {[voteAccount |-> vs[i].voteAccount,
           change |-> vs[i].targetBalance - vs[i].activeBalance] : i \in ModifiedIdx(vs)}
  /\ Len(plan.removals) = Cardinality(RemovedIdx(vs))
  /\ {[voteAccount |-> m.voteAccount, currentBalance |-> m.currentBalance] :
        m \in SeqRange(plan.removals)}
       = {[voteAccount |-> vs[i].voteAccount, currentBalance |-> vs[i].activeBalance] :
            i \in RemovedIdx(vs)}
  /\ Len(plan.additions) = Len(nvs)
  /\ \A k \in 1..Len(nvs) :
       /\ plan.additions[k].voteAccount = nvs[k].voteAccount
       /\ plan.additions[k].targetBalance = nvs[k].targetBalance

\* C19 (plan contents): every exported plan has in modifications exactly the
\* non-removed existing validators whose target differs from their current
\* balance, each with the signed change target - current; in removals exactly
\* the validators marked remove with their current balance; in additions
\* exactly the proposed validators with their target.
C19_PlanContents ==
  /\ (lastCmd.cmd = "w" /\ lastCmd.msg = "saved") => PlanExact(saved, validators, newValidators)
  /\ PlanExact(saveState(validators, newValidators), validators, newValidators)

C19_Witness ==
  /\ lastCmd.cmd = "w"
  /\ lastCmd.msg = "saved"
  /\ Len(saved.removals) >= 1
  /\ \E k \in 1..Len(saved.modifications) : saved.modifications[k].change < 0

FetchFailed == fetch.failedAt \in {"pool account", "reserve balance", "validator list", "decoding"}

\* the whole snapshot of the chain state: every staked validator, all names settled
WholeSnapshot(file) ==
  /\ file.status = "ok"
  /\ file.reserveBalance = lamportsToSol(fetch.chain.reserveLamports)
  /\ Len(file.validators) =
       Cardinality({k \in 1..Len(fetch.chain.validators) :
                      \/ fetch.chain.validators[k].activeStakeLamports > 0
                      \/ fetch.chain.validators[k].transientStakeLamports > 0})
  /\ \A i \in 1..Len(file.validators) : file.validators[i].name # "pending"

\* C20 (snapshot failure fallback): a fetch that fails at the pool account,
\* the reserve balance, the validator list or the decoding leaves data.json
\* exactly as it was; the file changes only in the one write after everything
\* was gathered; the session starts from the file as loaded (the last-known
\* one after a failure) or does not start, never from a partial snapshot.
C20_FailureFallback ==
  /\ fetch.pc \in {"start", "pool", "reserve", "list", "names"} => dataFile = fetch.old
  /\ FetchFailed => dataFile = fetch.old
  /\ fetch.pc = "written" => WholeSnapshot(dataFile)
  /\ fetch.pc = "session"
       => /\ validators = loadData(dataFile).validators
          /\ reserveBalance = loadData(dataFile).reserveBalance
          /\ \/ fetch.failedAt = "none" /\ WholeSnapshot(dataFile)
             \/ fetch.failedAt # "none" /\ dataFile = fetch.old /\ fetch.old.status = "ok"
  /\ fetch.pc \in {"start", "pool", "reserve", "list", "names", "written", "failed", "aborted"}
       => ~running /\ validators = <<>>
  /\ fetch.pc = "aborted" => dataFile.status # "ok"

\* the validator list could not be fetched and the session runs on the old file
C20_Witness ==
  /\ fetch.pc = "session"
  /\ fetch.failedAt = "validator list"
  /\ fetch.reserve # fetch.old.reserveBalance
  /\ dataFile = fetch.old
  /\ running
  /\ Len(validators) = 2

\* the totals of the plan, computed from the records
TotalsDifference ==
  TargetSum(validators, ActiveIdx(validators))
    + SumFn([j \in 1..Len(newValidators) |-> newValidators[j].targetBalance],
            1..Len(newValidators))
    - CurrentSum(validators, 1..Len(validators))

TotalsBalance ==
  /\ \A j \in 1..Len(newValidators) : newValidators[j].targetBalance # NotANumber
  /\ 100 * Abs(TotalsDifference) < SOL

\* C21 (totals balance, src/src/rebalance.ts): the plan is written only by a
\* w step taken in a state whose totals balance, |targets of the non-removed
\* + targets of the new - current of all| < 0.01 SOL, and what is written is
\* the plan of that state.
C21_TotalsBalance ==
  [][ (saved' # saved \/ (lastCmd'.cmd = "w" /\ lastCmd'.msg = "saved"))
      => /\ lastCmd'.cmd = "w"
         /\ TotalsBalance
         /\ saved' = saveState(validators, newValidators) ]_vars

\* a plan was saved whose totals differ, by less than the tolerance
C21_Witness ==
  /\ lastCmd.cmd = "w"
  /\ lastCmd.msg = "saved"
  /\ saved # NoPlan
  /\ TotalsDifference # 0

C23_RebalanceFrame ==
  [][ lastCmd'.cmd = "b"
      => /\ Len(validators') = Len(validators)
         /\ \A i \in 1..Len(validators) :
              /\ validators'[i] = [validators[i] EXCEPT
                                     !.targetBalance = validators'[i].targetBalance]
              /\ validators[i].action = "remove" => validators'[i] = validators[i]
         /\ newValidators' = newValidators
         /\ reserveBalance' = reserveBalance
         /\ saved' = saved ]_vars

C23_Witness ==
  /\ lastCmd.cmd = "b"
  /\ lastCmd.msg = "redistributed"
  /\ Len(newValidators) >= 1
  /\ \E i \in 1..Len(validators) :
       validators[i].action = "remove" /\ validators[i].activeBalance > 0
  /\ \E i \in 1..Len(validators) :
       validators[i].action = "keep" /\ validators[i].targetBalance > validators[i].activeBalance

NumActive == Cardinality(ActiveIdx(validators))
Freed == CurrentSum(validators, RemovedIdx(validators))
\* |active| * targetPerValidator
NewTotal == TargetSum(validators, ActiveIdx(validators)) + Freed
Redistributes == lastCmd'.cmd = "b" /\ lastCmd'.msg = "redistributed"

\* what is left of the freed pool after the first k validators of the walk
RemainingAfter(k) ==
  DistributeBottomUp(validators, SubSeq(activeValidators(validators), 1, k),
                     Freed, NewTotal, NumActive).remaining

\* C24 (fill bound): a rebalance never lowers a target; a validator below
\* targetPerValidator ends at most there (less than two lamports above, for
\* the rounding residue); one at or above targetPerValidator is left
\* unchanged; one visited after the freed pool is exhausted is left unchanged.
C24_FillBound ==
  [][ Redistributes
      => /\ \A i \in ActiveIdx(validators) : Added(i) >= 0
         /\ \A i \in ActiveIdx(validators) :
              NumActive * validators[i].targetBalance < NewTotal
                => NumActive * (validators'[i].targetBalance - 2 * LAMPORT) < NewTotal
         /\ \A i \in ActiveIdx(validators) :
              NumActive * validators[i].targetBalance >= NewTotal => Added(i) = 0
         /\ \A k \in 1..NumActive, j \in 1..NumActive :
              (k < j /\ RemainingAfter(k) <= 0)
                => Added(activeValidators(validators)[j]) = 0 ]_vars

LifecycleTags ==
  /\ \A j \in 1..Len(newValidators) :
       newValidators[j].action = "add" /\ newValidators[j].activeBalance = 0
  /\ \A i \in 1..Len(validators) : validators[i].action \in {"keep", "remove"}

\* C25 (lifecycle tags): every proposed record has action add and current
\* balance 0, every existing record has action keep or remove; no command
\* changes the action of a proposed record or takes it out of the proposed
\* list, and r or u with an index in the proposed range changes nothing.
C25_LifecycleTags ==
  /\ LifecycleTags
  /\ [][ /\ LifecycleTags'
         /\ Len(newValidators') >= Len(newValidators)
         /\ \A j \in 1..Len(newValidators) :
              /\ newValidators'[j].voteAccount = newValidators[j].voteAccount
              /\ newValidators'[j].action = newValidators[j].action
         /\ (/\ lastCmd'.cmd \in {"r", "u"}
             /\ lastCmd'.idx \in Len(validators)..(Len(validators) + Len(newValidators) - 1))
              => AllocationUnchanged ]_vars

C25_Witness ==
  /\ lastCmd.cmd \in {"r", "u"}
  /\ lastCmd.idx \in Len(validators)..(Len(validators) + Len(newValidators) - 1)
  /\ \E j \in 1..Len(newValidators) : newValidators[j].targetBalance > 0

\* C26 (freed stake is distributed at most once): in a session of r and b
\* commands only, the targets of the validators not marked remove never add
\* up to more than the current balances of all existing validators, up to
\* two lamports of rounding per validator.
C26_FreedOnce ==
  TargetSum(validators, ActiveIdx(validators))
    <= CurrentSum(validators, 1..Len(validators)) + 2 * LAMPORT * Len(validators)

\* C27 (rebalance preserves the order of targets): two validators not marked
\* remove whose targets were ordered before a rebalance are ordered the same
\* way after it, up to two lamports of rounding.
C27_OrderPreserved ==
  [][ Redistributes
      => \A a \in ActiveIdx(validators), b \in ActiveIdx(validators) :
           validators[a].targetBalance <= validators[b].targetBalance
             => validators'[a].targetBalance <= validators'[b].targetBalance + 2 * LAMPORT ]_vars

\* C27 as amended: a validator is never lifted above one that started at or
\* above targetPerValidator, up to two lamports of rounding.
C27_OrderAboveAverage ==
  [][ Redistributes
      => \A a \in ActiveIdx(validators), b \in ActiveIdx(validators) :
           (/\ validators[a].targetBalance <= validators[b].targetBalance
            /\ NumActive * validators[b].targetBalance >= NewTotal)
             => validators'[a].targetBalance <= validators'[b].targetBalance + 2 * LAMPORT ]_vars

C27_Witness ==
  /\ lastCmd.cmd = "b"
  /\ lastCmd.msg = "redistributed"
  /\ \E a \in ActiveIdx(validators), b \in ActiveIdx(validators) :
       /\ validators[a].targetBalance > validators[a].activeBalance
       /\ validators[a].targetBalance < validators[b].targetBalance
       /\ validators[b].targetBalance = validators[b].activeBalance

\* C28 (delta adjustments keep targets non-negative): in a session of + and -
\* commands from a loaded snapshot, whose targets are all >= 0, every target
\* of an existing or a proposed validator stays >= 0.
C28_DeltasNonNegative ==
  /\ \A i \in 1..Len(validators) : validators[i].targetBalance >= 0
  /\ \A j \in 1..Len(newValidators) : newValidators[j].targetBalance >= 0

VotesOf(list) == {list[i].voteAccount : i \in 1..Len(list)}
Occurrences(list, vote) == Cardinality({i \in 1..Len(list) : list[i].voteAccount = vote})

\* C29 (plan consistency): in an exported plan every existing validator is
\* listed exactly once, either in removals or in validators; every entry of
\* modifications is also in validators; and the summary has
\* toRemove = |removals|, toAdd = |additions|, toModify = |modifications| and
\* totalValidators = |validators| + |additions|.
C29_PlanConsistent ==
  saved # NoPlan
    => /\ \A i \in 1..Len(validators) :
            Occurrences(saved.removals, validators[i].voteAccount)
              + Occurrences(saved.validators, validators[i].voteAccount) = 1
       /\ VotesOf(saved.removals) \cup VotesOf(saved.validators) = VotesOf(validators)
       /\ VotesOf(saved.modifications) \subseteq VotesOf(saved.validators)
       /\ saved.summary.toRemove = Len(saved.removals)
       /\ saved.summary.toAdd = Len(saved.additions)
       /\ saved.summary.toModify = Len(saved.modifications)
       /\ saved.summary.totalValidators = Len(saved.validators) + Len(saved.additions)

C29_Witness ==
  /\ lastCmd.cmd = "w"
  /\ Len(saved.removals) > 0
  /\ Len(saved.modifications) > 0
  /\ Len(saved.validators) > Len(saved.modifications)

\* the names gathered so far belong to their own entries, and the entries are
\* the staked validators of the chain with their balances
NamesInPlace ==
  fetch.pc \in {"names", "written"}
    => /\ fetch.list = validatorsWithStake(fetch.chain.validators)
       /\ Len(fetch.names) = Len(fetch.list)
       /\ \A i \in 1..Len(fetch.list) :
            fetch.names[i] \in {"pending", "null", RugAlertName(fetch.list[i].voteAccount)}

\* C30 (name resolution is isolated and order-independent): in whatever order
\* the lookups settle, each entry gets the name resolved for its own vote
\* account or null when its lookup failed; a lookup that settles fills its own
\* entry only; no lookup fails the snapshot, drops a validator or changes a
\* balance, and the file written holds every entry with its name.
C30_NamesIsolated ==
  /\ NamesInPlace
  /\ [][ /\ NamesInPlace'
         /\ (fetch.pc = "names" /\ fetch'.pc = "names")
              => /\ fetch'.list = fetch.list
                 /\ fetch'.reserve = fetch.reserve
                 /\ Cardinality({i \in 1..Len(fetch.names) : fetch'.names[i] # fetch.names[i]}) = 1
                 /\ \A i \in 1..Len(fetch.names) :
                      fetch.names[i] # "pending" => fetch'.names[i] = fetch.names[i]
         /\ (fetch.pc = "names" /\ fetch'.pc = "failed") => fetch'.failedAt = "write"
         /\ fetch'.pc = "written"
              => /\ dataFile'.status = "ok"
                 /\ Len(dataFile'.validators) = Len(fetch.list)
                 /\ \A i \in 1..Len(fetch.list) :
                      /\ dataFile'.validators[i] = FileEntry(fetch.list[i], fetch.names[i])
                      /\ fetch.names[i] # "pending" ]_vars

\* a snapshot written with one lookup failed and another resolved
C30_Witness ==
  /\ fetch.pc = "written"
  /\ \E i \in 1..Len(dataFile.validators), j \in 1..Len(dataFile.validators) :
       /\ i < j
       /\ dataFile.validators[i].name = "null"
       /\ RugAlertName(dataFile.validators[i].voteAccount) # "null"
       /\ dataFile.validators[j].name = RugAlertName(dataFile.validators[j].voteAccount)
       /\ dataFile.validators[j].name # "null"
====
